---- MODULE Spec2Model ----
(***************************************************************************)
(* cc_grub_dpkg: configure the grub debconf installation device.           *)
(*                                                                         *)
(* The module is one sequential run of handle().  Every external           *)
(* collaborator (os.path.exists, grub-probe, udevadm, debconf-show,        *)
(* debconf-set-selections) answers nondeterministically; the answer is     *)
(* drawn when the call is made and recorded in a history variable.         *)
(*                                                                         *)
(* Text is a sequence of chunks.  A chunk is a piece of text that is never *)
(* cut by any operation of the module (a path segment, a word, one blank,  *)
(* one line feed), so strip, split, splitlines, substring search, sorting  *)
(* and formatting are computed on chunk sequences exactly as Python        *)
(* computes them on characters.  The chunks that occur in device paths are *)
(* prefix-free, so comparing two paths chunk by chunk with Ord gives the   *)
(* code-point order of the texts.                                          *)
(***************************************************************************)
EXTENDS Integers, Sequences, FiniteSets, TLC

\* ------------------------------------------------------------------ bounds

\* longest alias list the symlink query answers with (SpecFetch)
MaxAliases == 2
\* most lines the owner query answers with (SpecOwner)
MaxLines == 3

\* ------------------------------------------------------- Python's text

SP == " "
LF == "\n"
Whitespace == {SP, LF}

RECURSIVE lstrip(_)
lstrip(s) ==
    IF s # <<>> /\ Head(s) \in Whitespace THEN lstrip(Tail(s)) ELSE s

RECURSIVE rstrip(_)
rstrip(s) ==
    IF s # <<>> /\ s[Len(s)] \in Whitespace
    THEN rstrip(SubSeq(s, 1, Len(s) - 1))
    ELSE s

\* str.strip()
strip(s) == rstrip(lstrip(s))

RECURSIVE split_acc(_, _, _)
split_acc(s, cur, acc) ==
    IF s = <<>>
    THEN IF cur = <<>> THEN acc ELSE Append(acc, cur)
    ELSE IF Head(s) \in Whitespace
         THEN split_acc(Tail(s), <<>>,
                        IF cur = <<>> THEN acc ELSE Append(acc, cur))
         ELSE split_acc(Tail(s), Append(cur, Head(s)), acc)

\* str.split() without arguments: the runs of non-blank text
split(s) == split_acc(s, <<>>, <<>>)

RECURSIVE splitlines_acc(_, _, _)
splitlines_acc(s, cur, acc) ==
    IF s = <<>>
    THEN IF cur = <<>> THEN acc ELSE Append(acc, cur)
    ELSE IF Head(s) = LF
         THEN splitlines_acc(Tail(s), <<>>, Append(acc, cur))
         ELSE splitlines_acc(Tail(s), Append(cur, Head(s)), acc)

\* str.splitlines(): the lines without their line feeds
splitlines(s) == splitlines_acc(s, <<>>, <<>>)

\* sub in s
contains(s, sub) ==
    \E i \in 1..(Len(s) - Len(sub) + 1) : SubSeq(s, i, i + Len(sub) - 1) = sub

\* the chunks of device paths, in the code-point order of their texts
PathChunks == <<"/dev/", "ata-A", "ata-B", "cdrom", "disk/by-id/",
                "disk/by-path/", "sda", "sdb">>

Ord(c) ==
    IF \E i \in 1..Len(PathChunks) : PathChunks[i] = c
    THEN CHOOSE i \in 1..Len(PathChunks) : PathChunks[i] = c
    ELSE 0

RECURSIVE str_lt(_, _)
\* a < b on str
str_lt(a, b) ==
    IF b = <<>> THEN FALSE
    ELSE IF a = <<>> THEN TRUE
    ELSE IF Head(a) = Head(b) THEN str_lt(Tail(a), Tail(b))
    ELSE Ord(Head(a)) < Ord(Head(b))

RECURSIVE insert_sorted(_, _)
insert_sorted(x, l) ==
    IF l = <<>> THEN <<x>>
    ELSE IF str_lt(Head(l), x) THEN <<Head(l)>> \o insert_sorted(x, Tail(l))
    ELSE <<x>> \o l

RECURSIVE sorted(_)
\* sorted(list of str)
sorted(l) ==
    IF l = <<>> THEN <<>> ELSE insert_sorted(Head(l), sorted(Tail(l)))

RECURSIVE join(_, _)
\* sep.join(list)
join(l, sep) ==
    IF l = <<>> THEN <<>>
    ELSE IF Len(l) = 1 THEN l[1]
    ELSE l[1] \o sep \o join(Tail(l), sep)

\* str(b) of a bool
str_bool(b) == IF b THEN <<"True">> ELSE <<"False">>

lower_chunk(c) ==
    CASE c = "True" -> "true"
      [] c = "False" -> "false"
      [] c = "Yes" -> "yes"
      [] c = "No" -> "no"
      [] OTHER -> c

\* str.lower()
lower(s) == [i \in 1..Len(s) |-> lower_chunk(s[i])]

\* ------------------------------------------------------------- values

Absent == [tag |-> "absent"]
NoneVal == [tag |-> "none"]
Unasked == [tag |-> "unasked"]
B(b) == [tag |-> "bool", b |-> b]
S(s) == [tag |-> "str", s |-> s]

\* ----------------------------------------------------- cloudinit.util

TRUE_STRINGS == {<<"true">>, <<"yes">>, <<"1">>}
FALSE_STRINGS == {<<"false">>, <<"no">>, <<"0">>}

\* str(val) of a configuration value
str_val(v) == IF v.tag = "bool" THEN str_bool(v.b) ELSE v.s

\* util.translate_bool: the relaxed truthy parser
translate_bool(v) ==
    IF v.tag = "bool" THEN v.b ELSE lower(strip(str_val(v))) \in TRUE_STRINGS

\* util.is_false: the relaxed falsy parser
is_false(v) ==
    IF v.tag = "bool" THEN ~v.b ELSE lower(strip(str_val(v))) \in FALSE_STRINGS

\* util.get_cfg_option_str(yobj, key, None)
get_cfg_option_str(yobj, key) ==
    IF yobj[key] = Absent THEN NoneVal ELSE S(str_val(yobj[key]))

\* ------------------------------------------------------ configuration

K_ENABLED == "enabled"
K_PC_DEVICES == "grub-pc/install_devices"
K_PC_EMPTY == "grub-pc/install_devices_empty"
K_EFI_DEVICES == "grub-efi/install_devices"
Keys == {K_ENABLED, K_PC_DEVICES, K_PC_EMPTY, K_EFI_DEVICES}

EmptyDict == [k \in Keys |-> Absent]
Dict(e, pd, pe, ed) ==
    [k \in Keys |-> CASE k = K_ENABLED -> e
                      [] k = K_PC_DEVICES -> pd
                      [] k = K_PC_EMPTY -> pe
                      [] OTHER -> ed]

SDA == <<"/dev/", "sda">>
SDB == <<"/dev/", "sdb">>

EnabledValues == {Absent, B(TRUE), B(FALSE), S(<<"no">>), S(<<"yes">>)}
PcDeviceValues == {Absent, S(<<>>), S(SDA)}
PcEmptyValues ==
    {Absent, B(TRUE), B(FALSE), S(<<"yes">>), S(<<"true">>), S(<<"1">>),
     S(<<"no">>)}
EfiDeviceValues == {Absent, S(SDB)}

\* the sub-mappings a user writes under grub_dpkg
Dicts ==
    {Dict(e, pd, pe, ed) : e \in EnabledValues, pd \in PcDeviceValues,
                           pe \in PcEmptyValues, ed \in EfiDeviceValues}

\* the cloud-config document: the section under either top-level key
Configs ==
    {[grub_dpkg |-> d, alias |-> Absent] : d \in Dicts}
    \cup {[grub_dpkg |-> Absent, alias |-> d] :
            d \in {Dict(e, Absent, Absent, Absent) : e \in EnabledValues}}
    \cup {[grub_dpkg |-> Dict(B(TRUE), S(SDA), Absent, Absent),
           alias |-> Dict(B(FALSE), Absent, Absent, Absent)],
          [grub_dpkg |-> Dict(B(FALSE), Absent, Absent, Absent),
           alias |-> Dict(B(TRUE), S(SDA), Absent, Absent)],
          [grub_dpkg |-> NoneVal, alias |-> Dict(B(FALSE), Absent, Absent, Absent)],
          [grub_dpkg |-> Absent, alias |-> Absent]}

\* mycfg = cfg.get("grub_dpkg", cfg.get("grub-dpkg", {})); if not mycfg: {}
effective_cfg(c) ==
    LET got == IF c.grub_dpkg # Absent THEN c.grub_dpkg
               ELSE IF c.alias # Absent THEN c.alias ELSE EmptyDict
    IN  IF got = NoneVal THEN EmptyDict ELSE got

\* enabled = mycfg.get("enabled", True)
enabled_of(m) == IF m[K_ENABLED] = Absent THEN B(TRUE) ELSE m[K_ENABLED]

\* -------------------------------------------------- external commands

Call(cmd, arg) == [cmd |-> cmd, arg |-> arg]
EFI_PATH == <<"/sys/firmware/efi">>
BOOT == <<"/boot">>
BOOT_EFI == <<"/boot/efi">>
CANONICAL == <<"failed to get canonical path">>

Ok(out) == [tag |-> "ok", stdout |-> out]
Failed == [tag |-> "error"]
ExecError(reason, stderr) ==
    [tag |-> "ProcessExecutionError", reason |-> reason, stderr |-> stderr]

\* what os.path.exists("/sys/firmware/efi") can answer
EfiAnswers == {"present", "missing", "OSError"}

\* what grub-probe -t disk <mount point> can answer
ProbeOutcomes ==
    {Ok(<<>>), Ok(SDA \o <<LF>>), Ok(SDB \o <<LF>>),
     ExecError("FileNotFoundError", <<"-">>),
     ExecError("None", <<"grub-probe: error: ">> \o CANONICAL \o <<" of overlay">>),
     ExecError("None", <<"grub-probe: error: ", "unknown filesystem">>),
     [tag |-> "Exception"]}

BY_ID_A == <<"/dev/", "disk/by-id/", "ata-A">>
BY_ID_B == <<"/dev/", "disk/by-id/", "ata-B">>
BY_PATH == <<"/dev/", "disk/by-path/", "ata-A">>
CDROM == <<"/dev/", "cdrom">>
Aliases == {BY_ID_A, BY_ID_B, BY_PATH, CDROM}

RECURSIVE ListsUpTo(_, _)
\* the lists of at most n members of S
ListsUpTo(xs, n) ==
    IF n = 0 THEN {<<>>}
    ELSE LET shorter == ListsUpTo(xs, n - 1)
         IN  shorter \cup {Append(l, x) : l \in shorter, x \in xs}

\* what udevadm info --root --query=symlink <disk> can answer
UdevOutcome(l) == Ok(join(l, <<SP>>) \o <<LF>>)
UdevOutcomesAll == {Failed} \cup {UdevOutcome(l) : l \in ListsUpTo(Aliases, MaxAliases)}
UdevOutcomes ==
    {Failed, UdevOutcome(<<>>), UdevOutcome(<<BY_PATH>>),
     UdevOutcome(<<CDROM, BY_ID_B, BY_ID_A>>)}

OwnerLines ==
    {<<"grub-pc">>, <<"grub-efi-amd64">>, <<SP, "grub-efi-arm64", SP>>,
     <<"grub-efi-ia32">>, <<"grub-efi-amd64", "-signed">>}

\* what debconf-show --listowners can answer
OwnerOutcome(l) == Ok(join(l, <<LF>>) \o (IF l = <<>> THEN <<>> ELSE <<LF>>))
OwnerOutcomesAll == {Failed} \cup {OwnerOutcome(l) : l \in ListsUpTo(OwnerLines, MaxLines)}
OwnerOutcomes ==
    {Failed, OwnerOutcome(<<>>), OwnerOutcome(<<<<"grub-pc">>>>),
     OwnerOutcome(<<<<"grub-pc">>, <<SP, "grub-efi-arm64", SP>>, <<"grub-efi-amd64">>>>)}

\* how debconf-set-selections can end
SetterOutcomes == {"ok", "FileNotFoundError", "nonzero exit", "OSError"}

\* ---------------------------------------------------- the module's code

\* is_efi_booted: the marker path exists; an OSError counts as not booted
is_efi_booted(answer) == IF answer = "OSError" THEN FALSE ELSE answer = "present"

\* probe_disk without the "failed to get canonical path" handler
probe_disk_no_canonical(probe) ==
    CASE probe.tag = "ok" ->
           [raised |-> FALSE, disk |-> strip(probe.stdout)]
      [] probe.tag = "ProcessExecutionError" ->
           IF probe.reason = "FileNotFoundError"
           THEN [raised |-> FALSE, disk |-> <<>>]
           ELSE [raised |-> TRUE, disk |-> <<>>]
      [] OTHER ->
           [raised |-> FALSE, disk |-> <<>>]

\* fetch_idevs, the grub-probe call and its handlers: the disk found, or raised
probe_disk(probe) ==
    CASE probe.tag = "ok" ->
           [raised |-> FALSE, disk |-> strip(probe.stdout)]
      [] probe.tag = "ProcessExecutionError" ->
           IF probe.reason = "FileNotFoundError"
           THEN [raised |-> FALSE, disk |-> <<>>]
           ELSE IF contains(probe.stderr, CANONICAL)
           THEN [raised |-> FALSE, disk |-> <<>>]
           \* raise inside a handler leaves the try statement: the sibling
           \* "except Exception" does not see it
           ELSE [raised |-> TRUE, disk |-> <<>>]
      [] OTHER ->
           \* any other exception type: logged by "except Exception"
           [raised |-> FALSE, disk |-> <<>>]

\* fetch_idevs, the udevadm call: the aliases, or none when the query fails
udev_symlinks(udev) ==
    IF udev.tag = "ok" THEN split(strip(udev.stdout)) ELSE <<>>

\* the text "disk/by-id" occurs in a path exactly when this chunk does
BY_ID == <<"disk/by-id/">>

\* [dev for dev in devices if "disk/by-id" in dev]
filter_by_id(devices) == SelectSeq(devices, LAMBDA dev : contains(dev, BY_ID))

\* select_idevs taking the first alias as listed, unsorted
select_idevs_unsorted(devices, disk) ==
    IF devices # <<>> THEN devices[1] ELSE disk

\* sorted(devices)[0] if devices else disk
select_idevs(devices, disk) ==
    IF devices # <<>> THEN sorted(devices)[1] ELSE disk

\* fetch_idevs(mount_point): raised, the identifier returned, the calls made
fetch_idevs(mount_point, probe, exists, udev) ==
    LET p == probe_disk(probe)
        probed == <<Call("grub-probe", mount_point)>>
        checked == probed \o <<Call("os.path.exists", p.disk)>>
    IN  IF p.raised
        THEN [raised |-> TRUE, idevs |-> <<>>, calls |-> probed]
        ELSE IF p.disk = <<>>
        THEN [raised |-> FALSE, idevs |-> <<>>, calls |-> probed]
        ELSE IF ~exists
        THEN [raised |-> FALSE, idevs |-> <<>>, calls |-> checked]
        ELSE [raised |-> FALSE,
              idevs |-> select_idevs(filter_by_id(udev_symlinks(udev)), p.disk),
              calls |-> checked \o <<Call("udevadm", p.disk)>>]

valid_efi_owners == {<<"grub-efi-amd64">>, <<"grub-efi-arm64">>, <<"grub-efi-ia32">>}

RECURSIVE scan_owners(_)
\* for line in output.splitlines(): if line.strip() in valid: return it
scan_owners(lines) ==
    IF lines = <<>> THEN NoneVal
    ELSE IF strip(Head(lines)) \in valid_efi_owners THEN S(strip(Head(lines)))
    ELSE scan_owners(Tail(lines))

RECURSIVE scan_owners_untrimmed(_)
scan_owners_untrimmed(lines) ==
    IF lines = <<>> THEN NoneVal
    ELSE IF Head(lines) \in valid_efi_owners THEN S(Head(lines))
    ELSE scan_owners_untrimmed(Tail(lines))

\* get_debconf_owner comparing the lines as listed, untrimmed
get_debconf_owner_untrimmed(answer, listed) ==
    IF ~is_efi_booted(answer)
    THEN [owner |-> S(<<"grub-pc">>), calls |-> <<Call("os.path.exists", EFI_PATH)>>]
    ELSE [owner |-> IF listed.tag = "ok"
                    THEN scan_owners_untrimmed(splitlines(listed.stdout))
                    ELSE NoneVal,
          calls |-> <<Call("os.path.exists", EFI_PATH),
                      Call("debconf-show", <<"--listowners">>)>>]

\* get_debconf_owner falling back to grub-pc when no owner is recognized
get_debconf_owner_fallback(answer, listed) ==
    LET found == IF listed.tag = "ok"
                 THEN scan_owners(splitlines(listed.stdout))
                 ELSE NoneVal
    IN  IF ~is_efi_booted(answer)
        THEN [owner |-> S(<<"grub-pc">>), calls |-> <<Call("os.path.exists", EFI_PATH)>>]
        ELSE [owner |-> IF found = NoneVal THEN S(<<"grub-pc">>) ELSE found,
              calls |-> <<Call("os.path.exists", EFI_PATH),
                          Call("debconf-show", <<"--listowners">>)>>]

\* get_debconf_owner: the owner (or None) and the calls made
get_debconf_owner(answer, listed) ==
    IF ~is_efi_booted(answer)
    THEN [owner |-> S(<<"grub-pc">>), calls |-> <<Call("os.path.exists", EFI_PATH)>>]
    ELSE [owner |-> IF listed.tag = "ok"
                    THEN scan_owners(splitlines(listed.stdout))
                    ELSE NoneVal,
          calls |-> <<Call("os.path.exists", EFI_PATH),
                      Call("debconf-show", <<"--listowners">>)>>]

\* idevs_empty with the default's negation dropped
idevs_empty_not_negated(m, devs) ==
    LET v == m[K_PC_EMPTY]
        b == IF v = Absent THEN devs # <<>>
             ELSE IF v.tag = "bool" THEN v.b
             ELSE translate_bool(v)
    IN  lower(str_bool(b))

\* idevs_empty honouring only a native boolean from the configuration
idevs_empty_bool_only(m, devs) ==
    LET v == m[K_PC_EMPTY]
        b == IF v = Absent THEN devs = <<>>
             ELSE IF v.tag = "bool" THEN v.b
             ELSE devs = <<>>
    IN  lower(str_bool(b))

\* get_debconf_config, BIOS branch: idevs_empty as it is rendered
idevs_empty(m, devs) ==
    LET v == m[K_PC_EMPTY]
        b == IF v = Absent THEN devs = <<>>
             ELSE IF v.tag = "bool" THEN v.b
             ELSE translate_bool(v)
    IN  lower(str_bool(b))

\* "%s grub-efi/install_devices string %s\n" % (owner, idevs)
efi_selection(own, devs) ==
    own \o <<SP, K_EFI_DEVICES, SP, "string", SP>> \o devs \o <<LF>>

\* the two grub-pc lines
pc_selection(devs, empty) ==
    <<"grub-pc", SP, K_PC_DEVICES, SP, "string", SP>> \o devs \o <<LF>>
    \o <<"grub-pc", SP, K_PC_EMPTY, SP, "boolean", SP>> \o empty \o <<LF>>

\* --------------------------------------------------------------- state

VARIABLES
    cfg,         \* the cloud-config document handle() is given
    pc,          \* where the run is
    mycfg,       \* handle's effective sub-mapping
    efi,         \* is_efi_booted() as get_debconf_config saw it
    owner,       \* get_debconf_config's owner
    idevs,       \* get_debconf_config's idevs
    dconf_sel,   \* handle's dconf_sel
    calls,       \* the external calls made so far, in order
    efiAnswers,  \* what the marker-path check answered, call by call
    ownerOut,    \* what debconf-show answered
    probeOut,    \* what grub-probe answered
    diskExists,  \* what os.path.exists(disk) answered
    udevOut,     \* what udevadm answered
    setterOut    \* how debconf-set-selections ended

vars == <<cfg, pc, mycfg, efi, owner, idevs, dconf_sel, calls, efiAnswers,
          ownerOut, probeOut, diskExists, udevOut, setterOut>>

Init ==
    /\ cfg \in Configs
    /\ pc = "handle"
    /\ mycfg = Unasked
    /\ efi = Unasked
    /\ owner = Unasked
    /\ idevs = Unasked
    /\ dconf_sel = Unasked
    /\ calls = <<>>
    /\ efiAnswers = <<>>
    /\ ownerOut = Unasked
    /\ probeOut = Unasked
    /\ diskExists = Unasked
    /\ udevOut = Unasked
    /\ setterOut = Unasked

\* Handle_Enter returning early only on a native False
Handle_Enter_native_false_only ==
    /\ pc = "handle"
    /\ mycfg' = effective_cfg(cfg)
    /\ pc' = IF enabled_of(mycfg') = B(FALSE) THEN "returned" ELSE "get_debconf_config"
    /\ UNCHANGED <<cfg, efi, owner, idevs, dconf_sel, calls, efiAnswers,
                   ownerOut, probeOut, diskExists, udevOut, setterOut>>

\* handle, to the call of get_debconf_config: resolve the section, return
\* when it is disabled
Handle_Enter ==
    /\ pc = "handle"
    /\ mycfg' = effective_cfg(cfg)
    /\ pc' = IF is_false(enabled_of(mycfg')) THEN "returned" ELSE "get_debconf_config"
    /\ UNCHANGED <<cfg, efi, owner, idevs, dconf_sel, calls, efiAnswers,
                   ownerOut, probeOut, diskExists, udevOut, setterOut>>

\* get_debconf_config: if is_efi_booted(log)
GetDebconfConfig_IsEfi ==
    /\ pc = "get_debconf_config"
    /\ \E answer \in EfiAnswers :
         /\ efi' = B(is_efi_booted(answer))
         /\ efiAnswers' = Append(efiAnswers, answer)
         /\ calls' = Append(calls, Call("os.path.exists", EFI_PATH))
         /\ pc' = IF is_efi_booted(answer) THEN "get_debconf_owner" ELSE "get_idevs"
    /\ UNCHANGED <<cfg, mycfg, owner, idevs, dconf_sel, ownerOut, probeOut,
                   diskExists, udevOut, setterOut>>

\* get_debconf_config, EFI branch: owner = get_debconf_owner(log); None returns None
OwnerStep(outcomes) ==
    /\ pc = "get_debconf_owner"
    /\ \E answer \in EfiAnswers, listed \in outcomes :
         LET r == get_debconf_owner(answer, listed)
         IN  /\ owner' = r.owner
             /\ efiAnswers' = Append(efiAnswers, answer)
             /\ ownerOut' = IF Len(r.calls) = 2 THEN listed ELSE Unasked
             /\ calls' = calls \o r.calls
             /\ dconf_sel' = IF r.owner = NoneVal THEN NoneVal ELSE dconf_sel
             /\ pc' = IF r.owner = NoneVal THEN "dconf_sel" ELSE "get_idevs"
    /\ UNCHANGED <<cfg, mycfg, efi, idevs, probeOut, diskExists, udevOut, setterOut>>

GetDebconfConfig_Owner == OwnerStep(OwnerOutcomes)

\* get_debconf_config: idevs = util.get_cfg_option_str(mycfg, <key>, None)
GetDebconfConfig_Idevs ==
    /\ pc = "get_idevs"
    /\ LET got == get_cfg_option_str(mycfg, IF efi.b THEN K_EFI_DEVICES ELSE K_PC_DEVICES)
       IN  /\ idevs' = got
           /\ pc' = IF got = NoneVal THEN "fetch_idevs" ELSE "format"
    /\ UNCHANGED <<cfg, mycfg, efi, owner, dconf_sel, calls, efiAnswers,
                   ownerOut, probeOut, diskExists, udevOut, setterOut>>

\* get_debconf_config: if idevs is None: idevs = fetch_idevs(<mount point>, log)
FetchStep(outcomes) ==
    /\ pc = "fetch_idevs"
    /\ \E probe \in ProbeOutcomes, exists \in BOOLEAN, udev \in outcomes :
         LET r == fetch_idevs(IF efi.b THEN BOOT_EFI ELSE BOOT, probe, exists, udev)
         IN  /\ probeOut' = probe
             /\ diskExists' = IF Len(r.calls) >= 2 THEN B(exists) ELSE Unasked
             /\ udevOut' = IF Len(r.calls) = 3 THEN udev ELSE Unasked
             /\ calls' = calls \o r.calls
             /\ idevs' = IF r.raised THEN idevs ELSE S(r.idevs)
             /\ pc' = IF r.raised THEN "raised" ELSE "format"
    /\ UNCHANGED <<cfg, mycfg, efi, owner, dconf_sel, efiAnswers, ownerOut, setterOut>>

GetDebconfConfig_Fetch == FetchStep(UdevOutcomes)

\* get_debconf_config: the return statement of either branch
GetDebconfConfig_Return ==
    /\ pc = "format"
    /\ dconf_sel' = IF efi.b
                    THEN S(efi_selection(owner.s, idevs.s))
                    ELSE S(pc_selection(idevs.s, idevs_empty(mycfg, idevs.s)))
    /\ pc' = "dconf_sel"
    /\ UNCHANGED <<cfg, mycfg, efi, owner, idevs, calls, efiAnswers, ownerOut,
                   probeOut, diskExists, udevOut, setterOut>>

\* Handle_Finish letting a failure of the setter escape
Handle_Finish_reraise ==
    /\ pc = "dconf_sel"
    /\ IF dconf_sel = NoneVal
       THEN /\ pc' = "returned"
            /\ UNCHANGED <<calls, setterOut>>
       ELSE \E outcome \in SetterOutcomes :
              /\ calls' = Append(calls, Call("debconf-set-selections", dconf_sel.s))
              /\ setterOut' = S(<<outcome>>)
              /\ pc' = IF outcome = "ok" THEN "returned" ELSE "raised"
    /\ UNCHANGED <<cfg, mycfg, efi, owner, idevs, dconf_sel, efiAnswers,
                   ownerOut, probeOut, diskExists, udevOut>>

\* handle, after get_debconf_config: return on None, else run the setter
\* once inside try/except Exception
Handle_Finish ==
    /\ pc = "dconf_sel"
    /\ IF dconf_sel = NoneVal
       THEN UNCHANGED <<calls, setterOut>>
       ELSE \E outcome \in SetterOutcomes :
              /\ calls' = Append(calls, Call("debconf-set-selections", dconf_sel.s))
              /\ setterOut' = S(<<outcome>>)
    /\ pc' = "returned"
    /\ UNCHANGED <<cfg, mycfg, efi, owner, idevs, dconf_sel, efiAnswers,
                   ownerOut, probeOut, diskExists, udevOut>>

Next ==
    \/ Handle_Enter
    \/ GetDebconfConfig_IsEfi
    \/ GetDebconfConfig_Owner
    \/ GetDebconfConfig_Idevs
    \/ GetDebconfConfig_Fetch
    \/ GetDebconfConfig_Return
    \/ Handle_Finish

Spec == Init /\ [][Next]_vars

\* ------------------------------------- fetch_idevs on every alias list

NoConfig == [grub_dpkg |-> Absent, alias |-> Absent]

\* the run stands at the call of fetch_idevs, in either boot mode
InitFetch ==
    /\ cfg = NoConfig
    /\ pc = "fetch_idevs"
    /\ mycfg = effective_cfg(cfg)
    /\ \E answer \in EfiAnswers, listed \in OwnerOutcomes :
         IF is_efi_booted(answer)
         THEN LET r == get_debconf_owner(answer, listed)
              IN  /\ r.owner # NoneVal
                  /\ efi = B(TRUE)
                  /\ owner = r.owner
                  /\ efiAnswers = <<answer, answer>>
                  /\ ownerOut = listed
                  /\ calls = <<Call("os.path.exists", EFI_PATH)>> \o r.calls
         ELSE /\ listed = Failed
              /\ efi = B(FALSE)
              /\ owner = Unasked
              /\ efiAnswers = <<answer>>
              /\ ownerOut = Unasked
              /\ calls = <<Call("os.path.exists", EFI_PATH)>>
    /\ idevs = NoneVal
    /\ dconf_sel = Unasked
    /\ probeOut = Unasked
    /\ diskExists = Unasked
    /\ udevOut = Unasked
    /\ setterOut = Unasked

FetchIdevs_AnyAliases == FetchStep(UdevOutcomesAll)

NextFetch == FetchIdevs_AnyAliases

SpecFetch == InitFetch /\ [][NextFetch]_vars

\* ------------------------------- get_debconf_owner on every owner list

\* the run stands at the call of get_debconf_owner: the EFI branch was taken
InitOwner ==
    /\ cfg \in {NoConfig,
                [grub_dpkg |-> Dict(Absent, Absent, Absent, S(SDB)), alias |-> Absent]}
    /\ pc = "get_debconf_owner"
    /\ mycfg = effective_cfg(cfg)
    /\ efi = B(TRUE)
    /\ owner = Unasked
    /\ idevs = Unasked
    /\ dconf_sel = Unasked
    /\ calls = <<Call("os.path.exists", EFI_PATH)>>
    /\ efiAnswers = <<"present">>
    /\ ownerOut = Unasked
    /\ probeOut = Unasked
    /\ diskExists = Unasked
    /\ udevOut = Unasked
    /\ setterOut = Unasked

GetDebconfOwner_AnyLines == OwnerStep(OwnerOutcomesAll)

NextOwner == GetDebconfOwner_AnyLines

SpecOwner == InitOwner /\ [][NextOwner]_vars

\* ----------------------------------------------------------- the claims

SetterCalls == SelectSeq(calls, LAMBDA c : c.cmd = "debconf-set-selections")
Formatted == dconf_sel.tag = "str"
Lines == splitlines(dconf_sel.s)
\* the words of a directive line: owner, key, type, value (no value when empty)
Words(i) == split(Lines[i])
TruthyStrings == {S(<<"yes">>), S(<<"true">>), S(<<"1">>)}

ContainerLike(p) ==
    /\ p.tag = "ProcessExecutionError"
    /\ p.reason = "FileNotFoundError" \/ contains(p.stderr, CANONICAL)

UnexpectedProbeFailure(p) ==
    /\ p.tag = "ProcessExecutionError"
    /\ p.reason # "FileNotFoundError"
    /\ ~contains(p.stderr, CANONICAL)

\* C1: when grub-probe fails with an execution error that is neither
\* "executable not found" nor "failed to get canonical path", the failure is
\* caught inside the module: fetch_idevs yields the empty identifier, nothing
\* is raised out of handle and processing goes on to the formatter.
C1_UnexpectedProbeFailureCaught ==
    UnexpectedProbeFailure(probeOut) => pc # "raised" /\ idevs = S(<<>>)

NoRecognizedOwner(o) ==
    \/ o.tag = "error"
    \/ /\ o.tag = "ok"
       /\ \A i \in 1..Len(splitlines(o.stdout)) :
            strip(splitlines(o.stdout)[i]) \notin valid_efi_owners

\* C2: in the EFI branch, when the owner query fails or lists no line that
\* trims to one of the three grub-efi owners, get_debconf_config returns no
\* directive and debconf-set-selections is never invoked, whatever the
\* configuration holds.
C2_EfiNoOwnerNoDirective ==
    (efi = B(TRUE) /\ NoRecognizedOwner(ownerOut)) =>
        /\ dconf_sel = NoneVal
        /\ pc \in {"dconf_sel", "returned"}
        /\ SetterCalls = <<>>
        /\ setterOut = Unasked

C2_Witness ==
    /\ pc = "returned"
    /\ efi = B(TRUE)
    /\ ownerOut = OwnerOutcome(<<<<"grub-pc">>>>)
    /\ mycfg[K_EFI_DEVICES] = S(SDB)
    /\ dconf_sel = NoneVal

\* the device identifier the BIOS branch resolves: the configured value when
\* the key is present, what the prober returns for /boot otherwise
ResolvedPcDevice ==
    IF mycfg[K_PC_DEVICES] # Absent
    THEN str_val(mycfg[K_PC_DEVICES])
    ELSE fetch_idevs(BOOT, probeOut, diskExists = B(TRUE), udevOut).idevs

\* C3: in the BIOS branch with grub-pc/install_devices_empty absent, the
\* emitted install_devices_empty value is "true" exactly when the resolved
\* device identifier is empty and "false" otherwise.
C3_BiosEmptyDefault ==
    (Formatted /\ efi = B(FALSE) /\ mycfg[K_PC_EMPTY] = Absent) =>
        /\ Len(Lines) = 2
        /\ Len(Words(2)) = 4
        /\ Words(2)[2] = <<K_PC_EMPTY>>
        /\ Words(2)[4] = IF ResolvedPcDevice = <<>> THEN <<"true">> ELSE <<"false">>

C3_Witness ==
    /\ pc = "returned"
    /\ efi = B(FALSE)
    /\ mycfg[K_PC_EMPTY] = Absent
    /\ mycfg[K_PC_DEVICES] = S(<<>>)
    /\ Words(2)[4] = <<"true">>

\* C4: in the BIOS branch, when grub-pc/install_devices_empty is "yes",
\* "true" or "1", the second emitted line is
\* "grub-pc grub-pc/install_devices_empty boolean true", whatever the prober
\* returned and whatever the resolved device identifier is.
C4_BiosExplicitTruthy ==
    (Formatted /\ efi = B(FALSE) /\ mycfg[K_PC_EMPTY] \in TruthyStrings) =>
        /\ Len(Lines) = 2
        /\ Lines[2] = <<"grub-pc", SP, K_PC_EMPTY, SP, "boolean", SP, "true">>

C4_Witness ==
    /\ pc = "returned"
    /\ efi = B(FALSE)
    /\ mycfg[K_PC_EMPTY] = S(<<"1">>)
    /\ probeOut = Ok(SDA \o <<LF>>)
    /\ idevs = S(BY_ID_A)

\* the alias list the symlink query gave; empty when the query failed
AliasList == IF udevOut.tag = "ok" THEN split(udevOut.stdout) ELSE <<>>
ByIdAliases == {AliasList[i] : i \in {j \in 1..Len(AliasList) : contains(AliasList[j], BY_ID)}}
FoundExistingDisk ==
    /\ probeOut.tag = "ok"
    /\ strip(probeOut.stdout) # <<>>
    /\ diskExists = B(TRUE)

\* C5: once fetch_idevs has found an existing disk path, its result is the
\* lexicographically smallest alias holding the by-id segment when the alias
\* list has one, and the probed disk path unchanged when it has none (also
\* when the symlink query failed).
C5_SmallestByIdOrDisk ==
    FoundExistingDisk =>
        /\ idevs.tag = "str"
        /\ IF ByIdAliases # {}
           THEN /\ idevs.s \in ByIdAliases
                /\ \A a \in ByIdAliases : ~str_lt(a, idevs.s)
           ELSE idevs.s = strip(probeOut.stdout)

C5_Witness ==
    /\ FoundExistingDisk
    /\ udevOut = UdevOutcome(<<BY_ID_B, BY_ID_A>>)
    /\ idevs = S(BY_ID_A)

\* C6: when the effective section's enabled field is present and false under
\* the relaxed parser, handle returns at once: no boot-mode check, no
\* grub-probe, udevadm, debconf-show or debconf-set-selections call is made;
\* when enabled is absent the run goes on as enabled.
C6_DisabledDoesNothing ==
    /\ (mycfg # Unasked /\ mycfg[K_ENABLED] # Absent /\ is_false(mycfg[K_ENABLED])) =>
           /\ pc = "returned"
           /\ calls = <<>>
           /\ efiAnswers = <<>>
           /\ dconf_sel = Unasked
    /\ (mycfg # Unasked /\ mycfg[K_ENABLED] = Absent) =>
           \/ pc = "get_debconf_config"
           \/ /\ calls # <<>>
              /\ calls[1] = Call("os.path.exists", EFI_PATH)

C6_Witness ==
    /\ pc = "returned"
    /\ cfg.grub_dpkg = Absent
    /\ mycfg[K_ENABLED] = S(<<"no">>)
    /\ calls = <<>>

C8_SetterFailureSwallowed ==
    /\ Formatted => pc \in {"dconf_sel", "returned"}
    /\ (Formatted /\ pc = "dconf_sel") => (SetterCalls = <<>> /\ ENABLED Handle_Finish)
    /\ (Formatted /\ pc = "returned") =>
           /\ Len(SetterCalls) = 1
           /\ SetterCalls[1].arg = dconf_sel.s
           /\ calls[Len(calls)] = SetterCalls[1]
           /\ setterOut # Unasked
    /\ setterOut # Unasked => pc = "returned"

C8_Witness ==
    /\ pc = "returned"
    /\ Formatted
    /\ setterOut = S(<<"nonzero exit">>)
    /\ Len(SetterCalls) = 1

\* the owner list's lines; none when the query failed
OwnerListLines == IF ownerOut.tag = "ok" THEN splitlines(ownerOut.stdout) ELSE <<>>
MatchingLines == {i \in 1..Len(OwnerListLines) : strip(OwnerListLines[i]) \in valid_efi_owners}

\* C9: on an EFI-booted system the owner resolver returns the first line of
\* the owner list, in output order, whose trimmed text is grub-efi-amd64,
\* grub-efi-arm64 or grub-efi-ia32, and None when no line matches or the
\* query fails; it never returns a name outside that list.
C9_OwnerFirstMatch ==
    (Len(efiAnswers) = 2 /\ is_efi_booted(efiAnswers[2])) =>
        IF MatchingLines = {}
        THEN owner = NoneVal
        ELSE /\ owner.tag = "str"
             /\ owner.s \in valid_efi_owners
             /\ \E i \in MatchingLines :
                  /\ \A j \in MatchingLines : i <= j
                  /\ owner.s = strip(OwnerListLines[i])

C9_Witness ==
    /\ ownerOut = OwnerOutcome(<<<<"grub-pc">>, <<SP, "grub-efi-arm64", SP>>, <<"grub-efi-amd64">>>>)
    /\ owner = S(<<"grub-efi-arm64">>)

\* C10: boot mode is derived once per run, so a directive emitted with the
\* key grub-efi/install_devices carries an owner from the EFI allow-list and
\* never grub-pc, whatever the firmware-path check answers during the run.
C10_EfiKeyHasEfiOwner ==
    Formatted =>
        \A i \in 1..Len(Lines) :
           Words(i)[2] = <<K_EFI_DEVICES>> => Words(i)[1] \in valid_efi_owners

====
